---- MODULE Spec2Model ----
(***************************************************************************)
(* BaseSyncRepository (base_repository.py): query construction, the        *)
(* serialization shim, session-scoped execution and the CRUD surface,      *)
(* for one concrete repository bound to a table with columns id (primary   *)
(* key, supplied by the application) and val.                              *)
(***************************************************************************)
EXTENDS Integers, Sequences, FiniteSets, TLC

VARIABLES
  used_db,   \* the repository's default database name (class attribute used_db)
  tables,    \* per database name, the rows of the bound table
  sessions,  \* the sessions open now: owner (caller), database, row locks held
  last,      \* the last call: method, arguments, events of its sessions, result
  inserted,  \* per id, the column map of a returned insert whose row is unchanged
  deleted,   \* the ids deleted and not inserted since
  pc,        \* two callers: where each is in its get_by_id / update pair
  target,    \* two callers: the id each looks up
  fetched,   \* two callers: the record fetched, then the instance returned
  overlap    \* two callers: what the other ran between its select and update

vars == <<used_db, tables, sessions, last, inserted, deleted, pc, target, fetched, overlap>>

(* ------------------------------ bounds --------------------------------- *)
MaxId == 2
MaxBatch == 2

Ids == 1..MaxId
\* the val column: 0 is the empty payload (an entity carrying it evaluates as
\* false), 1 a non-empty one
Vals == {0, 1}
Callers == {1, 2}

\* the names project_name.storage.database.db answers to
DbRegistry == {"main", "shard_master", "shard_slave"}

Rows == [id : Ids, val : Vals]

\* ser: what the instance's to_dict attribute is; "full" returns every column,
\* "noid" returns the columns without 'id', "none" is an instance with no
\* callable to_dict
Sers == {"full", "noid", "none"}
\* an instance that does not serialize its id is told apart by its payload
\* alone, one with no to_dict by nothing
Entities ==
  {e \in [ident : Ids, payload : Vals, ser : Sers] :
     /\ e.ser # "full" => e.ident = 1
     /\ e.ser = "none" => e.payload = 0}
Batches == UNION {[1..n -> Entities] : n \in 0..MaxBatch}

EmptyDict == [k \in {} |-> 0]

(* --------------------------- query builder ----------------------------- *)
\* a statement: its kind, the bind parameter of its id-equality predicate
\* ("" when it has no WHERE clause) and whether it locks the rows it selects
id_query == "instance_id"

where(q, pred) == [q EXCEPT !.where = pred]

with_for_update(q) == [q EXCEPT !.for_update = TRUE]

get_all_query == [kind |-> "select", where |-> "", for_update |-> FALSE]

\* the lookup built without its id predicate
get_by_id_query_unfiltered == get_all_query

get_by_id_query == where(get_all_query, id_query)

get_by_id_for_update_query == where(with_for_update(get_all_query), id_query)

\* the deletion built as a selection
delete_by_id_query_as_select == where(get_all_query, id_query)

delete_by_id_query == where([kind |-> "delete", where |-> "", for_update |-> FALSE], id_query)

insert_query == [kind |-> "insert", where |-> "", for_update |-> FALSE]

\* the update built without its id predicate
update_query_unfiltered == [kind |-> "update", where |-> "", for_update |-> FALSE]

update_query == where([kind |-> "update", where |-> "", for_update |-> FALSE], id_query)

delete_all_query == [kind |-> "delete", where |-> "", for_update |-> FALSE]

(* ---------------------------- serializer ------------------------------- *)
get_instance_id(instance) == instance.ident

get_instance(record) == [ident |-> record.id, payload |-> record.val, ser |-> "full"]

get_instances(records) == [k \in 1..Len(records) |-> get_instance(records[k])]

\* <<column map>>, or <<>> when NotImplementedError is raised
instance_to_dict(instance) ==
  IF instance.ser = "full" THEN <<[id |-> instance.ident, val |-> instance.payload]>>
  ELSE IF instance.ser = "noid" THEN <<[val |-> instance.payload]>>
  ELSE <<>>

instance_id_as_dict(instance_id) == [instance_id |-> instance_id]

\* Python truth value of an entity (`not instance`): an entity type with
\* __bool__/__len__ over its payload is false when the payload is empty
Truthy(instance) == instance.payload # 0

\* Python truth value of a fetched record (`not record`): None is false, a
\* RowProxy is false only when it has no column
RecordTruthy(record) == record # <<>> /\ DOMAIN record[1] # {}

(* ------------------- the statement, as the database runs it ------------ *)
KeyOk(tbl) == \A r1, r2 \in tbl : r1.id = r2.id => r1 = r2

SeqOfRows(tbl) ==
  LET F[k \in 0..MaxId] ==
        IF k = 0 THEN <<>>
        ELSE F[k - 1] \o (IF \E r \in tbl : r.id = k
                          THEN <<CHOOSE r \in tbl : r.id = k>> ELSE <<>>)
  IN F[MaxId]

Matching(tbl, q, params) ==
  IF q.where = "" THEN tbl ELSE {r \in tbl : r.id = params[q.where]}

Failed(exc, tbl) == [ok |-> FALSE, exc |-> exc, rows |-> <<>>, rowcount |-> 0, tbl |-> tbl, locks |-> {}]

Done(rows, rowcount, tbl, locks) == [ok |-> TRUE, exc |-> "", rows |-> rows, rowcount |-> rowcount, tbl |-> tbl, locks |-> locks]

SetColumns(r, params) ==
  [id |-> IF "id" \in DOMAIN params THEN params.id ELSE r.id,
   val |-> IF "val" \in DOMAIN params THEN params.val ELSE r.val]

\* session.execute(query, params) with one parameter set
SessionExecute(tbl, q, params) ==
  IF q.where # "" /\ q.where \notin DOMAIN params THEN Failed("StatementError", tbl)
  ELSE LET m == Matching(tbl, q, params) IN
    CASE q.kind = "select" ->
           Done(SeqOfRows(m), Cardinality(m), tbl, IF q.for_update THEN {r.id : r \in m} ELSE {})
      [] q.kind = "delete" ->
           Done(<<>>, Cardinality(m), tbl \ m, {r.id : r \in m})
      [] q.kind = "update" ->
           LET new == (tbl \ m) \cup {SetColumns(r, params) : r \in m} IN
           IF KeyOk(new) /\ Cardinality(new) = Cardinality(tbl)
           THEN Done(<<>>, Cardinality(m), new, {r.id : r \in m})
           ELSE Failed("IntegrityError", tbl)
      [] q.kind = "insert" ->
           IF "id" \in DOMAIN params /\ "val" \in DOMAIN params
              /\ \A r \in tbl : r.id # params.id
           THEN Done(<<>>, 1, tbl \cup {[id |-> params.id, val |-> params.val]}, {params.id})
           ELSE Failed("IntegrityError", tbl)

\* session.execute(query, params_list): one multi-row insert, all rows or none
SessionExecuteMany(tbl, q, params_list) ==
  LET n == Len(params_list)
      new == {[id |-> params_list[k].id, val |-> params_list[k].val] : k \in 1..n}
  IN IF /\ \A k \in 1..n : "id" \in DOMAIN params_list[k] /\ "val" \in DOMAIN params_list[k]
        /\ \A k \in 1..n : \A r \in tbl : r.id # params_list[k].id
        /\ \A j, k \in 1..n : params_list[j].id = params_list[k].id => j = k
     THEN Done(<<>>, n, tbl \cup new, {r.id : r \in new})
     ELSE Failed("IntegrityError", tbl)

(* ------------------------------ sessions ------------------------------- *)
Ev(ev, db, stmt) == [ev |-> ev, db |-> db, stmt |-> stmt]

\* `with self._get_db_for_query(..) as session:` entered by caller c
WithEnter(S, c, db) == S \cup {[owner |-> c, db |-> db, locks |-> {}]}

\* the same block left, by return or by exception: the session is released
\* and the transaction of the session ends, so its row locks go with it
\* a block that keeps its session when it is left
WithExit_keep(S, c, db) == S

WithExit(S, c, db) == {s \in S : ~(s.owner = c /\ s.db = db)}

ApplyTrace(S, c, trace) ==
  LET F[k \in 0..Len(trace)] ==
        IF k = 0 THEN S
        ELSE IF trace[k].ev = "open" THEN WithEnter(F[k - 1], c, trace[k].db)
        ELSE IF trace[k].ev = "close" THEN WithExit(F[k - 1], c, trace[k].db)
        ELSE F[k - 1]
  IN F[Len(trace)]

_get_db_for_query(db_name) == IF used_db # "" THEN used_db ELSE db_name

(* -------------------- results of a call of a method -------------------- *)
Return(value, trace, tbls) == [outcome |-> "return", exc |-> "", value |-> value, trace |-> trace, tbls |-> tbls]

Raise(exc, trace, tbls) == [outcome |-> "raise", exc |-> exc, value |-> <<>>, trace |-> trace, tbls |-> tbls]

\* the three events of a with block around one statement; `reads` are the
\* reads of the result made inside the block
Block(db, q, reads) == <<Ev("open", db, "")>> \o <<Ev("execute", db, q.kind)>> \o reads \o <<Ev("close", db, "")>>

\* a block that releases its session on the success path only
FailedBlock_leak(db, q) == <<Ev("open", db, ""), Ev("execute", db, q.kind)>>

FailedBlock(db, q) == <<Ev("open", db, ""), Ev("execute", db, q.kind), Ev("close", db, "")>>

_fetchall(tbls, q, use_db, params) ==
  LET db == _get_db_for_query(use_db) IN
  IF db \notin DbRegistry THEN Raise("AttributeError", <<>>, tbls)
  ELSE LET r == SessionExecute(tbls[db], q, params) IN
       IF ~r.ok THEN Raise(r.exc, FailedBlock(db, q), tbls)
       ELSE Return(r.rows, Block(db, q, <<Ev("read", db, "rows")>>), [tbls EXCEPT ![db] = r.tbl])

_fetchone(tbls, q, use_db, params) ==
  LET db == _get_db_for_query(use_db) IN
  IF db \notin DbRegistry THEN Raise("AttributeError", <<>>, tbls)
  ELSE LET r == SessionExecute(tbls[db], q, params) IN
       IF ~r.ok THEN Raise(r.exc, FailedBlock(db, q), tbls)
       ELSE Return(SubSeq(r.rows, 1, IF Len(r.rows) > 0 THEN 1 ELSE 0),
                   Block(db, q, <<Ev("read", db, "rows")>>), [tbls EXCEPT ![db] = r.tbl])

\* returns the driver's result itself: value is <<result>>, read by the caller
_execute(tbls, q, use_db, params) ==
  LET db == _get_db_for_query(use_db) IN
  IF db \notin DbRegistry THEN Raise("AttributeError", <<>>, tbls)
  ELSE LET r == SessionExecute(tbls[db], q, params) IN
       IF ~r.ok THEN Raise(r.exc, FailedBlock(db, q), tbls)
       ELSE Return(<<r>>, Block(db, q, <<>>), [tbls EXCEPT ![db] = r.tbl])

\* a read of the result made by the caller of _execute, after the block is
\* left: the result belongs to a released session, so the read either still
\* answers (stale = FALSE) or finds the result closed (stale = TRUE)
ReadAfter(x, what, stale, value) ==
  LET t == x.trace \o <<Ev("read", x.trace[1].db, what)>> IN
  IF stale THEN Raise("ResourceClosedError", t, x.tbls) ELSE Return(value, t, x.tbls)

(* ------------------------------- CRUD ---------------------------------- *)
get_by_id(tbls, instance_id, for_update) ==
  LET query == IF for_update THEN get_by_id_for_update_query ELSE get_by_id_query
      x == _fetchone(tbls, query, "", instance_id_as_dict(instance_id))
  IN IF x.outcome = "raise" THEN x
     ELSE IF ~RecordTruthy(x.value) THEN Return(<<>>, x.trace, x.tbls)
     ELSE Return(<<get_instance(x.value[1])>>, x.trace, x.tbls)

get_or_raise_by_id(tbls, instance_id, for_update) ==
  LET x == get_by_id(tbls, instance_id, for_update) IN
  IF x.outcome = "raise" THEN x
  ELSE IF x.value = <<>> \/ ~Truthy(x.value[1]) THEN Raise("NotFoundInRepository", x.trace, x.tbls)
  ELSE x

\* an insert whose statement runs but whose row never reaches the table
insert_discarded(tbls, instance, stale) ==
  LET params == instance_to_dict(instance) IN
  IF params = <<>> THEN Raise("NotImplementedError", <<>>, tbls)
  ELSE LET x == _execute(tbls, insert_query, "", params[1]) IN
       IF x.outcome = "raise" THEN x
       ELSE ReadAfter([x EXCEPT !.tbls = tbls], "rowcount", stale, <<x.value[1].rowcount>>)

insert(tbls, instance, stale) ==
  LET params == instance_to_dict(instance) IN
  IF params = <<>> THEN Raise("NotImplementedError", <<>>, tbls)
  ELSE LET x == _execute(tbls, insert_query, "", params[1]) IN
       IF x.outcome = "raise" THEN x
       ELSE ReadAfter(x, "rowcount", stale, <<x.value[1].rowcount>>)

update(tbls, instance, stale) ==
  LET d == instance_to_dict(instance) IN
  IF d = <<>> THEN Raise("NotImplementedError", <<>>, tbls)
  ELSE LET params == IF "id" \in DOMAIN d[1] THEN d[1] @@ ("instance_id" :> d[1].id) ELSE d[1]
           x == _execute(tbls, update_query, "", params)
       IN IF x.outcome = "raise" THEN x
          ELSE ReadAfter(x, "rowcount", stale, <<x.value[1].rowcount>>)

delete_by_id(tbls, instance_id) ==
  LET x == _execute(tbls, delete_by_id_query, "", instance_id_as_dict(instance_id)) IN
  IF x.outcome = "raise" THEN x ELSE Return(<<>>, x.trace, x.tbls)

delete(tbls, instance) == delete_by_id(tbls, get_instance_id(instance))

delete_all(tbls) ==
  LET x == _execute(tbls, delete_all_query, "", EmptyDict) IN
  IF x.outcome = "raise" THEN x ELSE Return(<<>>, x.trace, x.tbls)

get_all(tbls, stale) ==
  LET x == _execute(tbls, get_all_query, "", EmptyDict) IN
  IF x.outcome = "raise" THEN x
  ELSE ReadAfter(x, "rows", stale, get_instances(x.value[1].rows))

\* insert_many without its test for the empty list
insert_many_unguarded(tbls, instances) ==
  IF \E k \in 1..Len(instances) : instance_to_dict(instances[k]) = <<>>
  THEN Raise("NotImplementedError", <<>>, tbls)
  ELSE LET params_list == [k \in 1..Len(instances) |-> instance_to_dict(instances[k])[1]]
           db == _get_db_for_query(used_db)
       IN IF db \notin DbRegistry THEN Raise("AttributeError", <<>>, tbls)
          ELSE LET r == SessionExecuteMany(tbls[db], insert_query, params_list) IN
               IF ~r.ok THEN Raise(r.exc, FailedBlock(db, insert_query), tbls)
               ELSE Return(<<>>, Block(db, insert_query, <<>>), [tbls EXCEPT ![db] = r.tbl])

insert_many(tbls, instances) ==
  IF instances = <<>> THEN Return(<<>>, <<>>, tbls)
  ELSE IF \E k \in 1..Len(instances) : instance_to_dict(instances[k]) = <<>>
  THEN Raise("NotImplementedError", <<>>, tbls)
  ELSE LET params_list == [k \in 1..Len(instances) |-> instance_to_dict(instances[k])[1]]
           db == _get_db_for_query(used_db)
       IN IF db \notin DbRegistry THEN Raise("AttributeError", <<>>, tbls)
          ELSE LET r == SessionExecuteMany(tbls[db], insert_query, params_list) IN
               IF ~r.ok THEN Raise(r.exc, FailedBlock(db, insert_query), tbls)
               ELSE Return(<<>>, Block(db, insert_query, <<>>), [tbls EXCEPT ![db] = r.tbl])

(* ------------------- the repository, called in sequence ---------------- *)
NoCall(tbls) ==
  [op |-> "none", id |-> 0, for_update |-> FALSE, args |-> <<>>, n |-> 0, use_db |-> "",
   outcome |-> "return", exc |-> "", value |-> <<>>, trace |-> <<>>, before |-> tbls]

\* one call by caller 1: its effect on the tables and the sessions, and the
\* record of the call (n: the number of instances given to insert_many)
Call(op, id, for_update, args, n, use_db, x) ==
  /\ tables' = x.tbls
  /\ sessions' = ApplyTrace(sessions, 1, x.trace)
  /\ last' = [op |-> op, id |-> id, for_update |-> for_update, args |-> args, n |-> n,
              use_db |-> use_db, outcome |-> x.outcome, exc |-> x.exc, value |-> x.value,
              trace |-> x.trace, before |-> tables]
  /\ UNCHANGED <<used_db, pc, target, fetched, overlap>>

GetById ==
  \E i \in Ids, fu \in BOOLEAN :
    Call("get_by_id", i, fu, <<>>, 0, "", get_by_id(tables, i, fu))

GetOrRaiseById ==
  \E i \in Ids, fu \in BOOLEAN :
    Call("get_or_raise_by_id", i, fu, <<>>, 0, "", get_or_raise_by_id(tables, i, fu))

Insert ==
  \E e \in Entities, stale \in BOOLEAN :
    Call("insert", e.ident, FALSE, <<e>>, 0, "", insert(tables, e, stale))

Update ==
  \E e \in Entities, stale \in BOOLEAN :
    Call("update", e.ident, FALSE, <<e>>, 0, "", update(tables, e, stale))

DeleteById ==
  \E i \in Ids : Call("delete_by_id", i, FALSE, <<>>, 0, "", delete_by_id(tables, i))

Delete ==
  \E e \in Entities : Call("delete", get_instance_id(e), FALSE, <<e>>, 0, "", delete(tables, e))

DeleteAll == Call("delete_all", 0, FALSE, <<>>, 0, "", delete_all(tables))

GetAll == \E stale \in BOOLEAN : Call("get_all", 0, FALSE, <<>>, 0, "", get_all(tables, stale))

InsertMany ==
  \E b \in Batches : Call("insert_many", 0, FALSE, <<>>, Len(b), "", insert_many(tables, b))

\* the protected helpers, called by a repository subclass with a database name
UseDbNames == {""} \cup DbRegistry

Fetchall ==
  \E use_db \in UseDbNames :
    \/ Call("_fetchall", 0, FALSE, <<>>, 0, use_db,
            _fetchall(tables, get_all_query, use_db, EmptyDict))
    \/ \E i \in Ids :
         Call("_fetchall", i, FALSE, <<>>, 0, use_db,
              _fetchall(tables, get_by_id_query, use_db, instance_id_as_dict(i)))

Fetchone ==
  \E use_db \in UseDbNames, i \in Ids, fu \in BOOLEAN :
    Call("_fetchone", i, fu, <<>>, 0, use_db,
         _fetchone(tables, IF fu THEN get_by_id_for_update_query ELSE get_by_id_query,
                   use_db, instance_id_as_dict(i)))

Execute ==
  \E use_db \in UseDbNames :
    \/ Call("_execute", 0, FALSE, <<>>, 0, use_db,
            _execute(tables, delete_all_query, use_db, EmptyDict))
    \/ \E i \in Ids :
         Call("_execute", i, FALSE, <<>>, 0, use_db,
              _execute(tables, delete_by_id_query, use_db, instance_id_as_dict(i)))

(* --------------------------- history of a row -------------------------- *)
RowAt(tbl, i) == {r \in tbl : r.id = i}

\* per id, the column map of the last insert(e) that returned, kept until the
\* row of that id changes
InsertedAfter ==
  [i \in Ids |->
     IF /\ last'.op = "insert" /\ last'.outcome = "return"
        /\ last'.args[1].ser = "full" /\ last'.args[1].ident = i
     THEN instance_to_dict(last'.args[1])
     ELSE IF RowAt(tables'[used_db], i) # RowAt(tables[used_db], i) THEN <<>>
     ELSE inserted[i]]

\* the ids a delete_by_id or delete that returned was given, kept until a row
\* of that id is inserted
DeletedAfter ==
  {i \in Ids :
     /\ \/ i \in deleted
        \/ last'.op \in {"delete_by_id", "delete"} /\ last'.outcome = "return" /\ last'.id = i
     /\ ~(RowAt(tables[used_db], i) = {} /\ RowAt(tables'[used_db], i) # {})}

(* ------------- two callers, each call in its two halves ---------------- *)
\* the row locks a statement takes belong to the session that ran it
WithLocks(S, c, db, ids) ==
  {IF s.owner = c /\ s.db = db THEN [s EXCEPT !.locks = @ \cup ids] ELSE s : s \in S}

\* a statement waits while another session holds a lock on a row it needs
Blocked(S, c, ids) == \E s \in S : s.owner # c /\ s.locks \cap ids # {}

\* what the other callers between their select and their update see run
Seen(c, i, what) ==
  [d \in Callers |->
     IF d = c THEN {}
     ELSE IF pc[d] = "selected" /\ target[d] = i THEN overlap[d] \cup {what}
     ELSE overlap[d]]

\* get_by_id(i, for_update=True) up to the fetchone inside the with block
SelectEnter(c) ==
  \E i \in Ids :
    LET db == _get_db_for_query("")
        r == SessionExecute(tables[db], get_by_id_for_update_query, instance_id_as_dict(i))
    IN /\ pc[c] = "idle"
       /\ r.ok
       /\ ~Blocked(sessions, c, r.locks)
       /\ sessions' = WithLocks(WithEnter(sessions, c, db), c, db, r.locks)
       /\ fetched' = [fetched EXCEPT ![c] = SubSeq(r.rows, 1, IF Len(r.rows) > 0 THEN 1 ELSE 0)]
       /\ target' = [target EXCEPT ![c] = i]
       /\ overlap' = Seen(c, i, "select")
       /\ pc' = [pc EXCEPT ![c] = "in_select"]
       /\ UNCHANGED <<used_db, tables, last, inserted, deleted>>

\* the with block left, and get_by_id returning the mapped entity or None
SelectExit(c) ==
  /\ pc[c] = "in_select"
  /\ sessions' = WithExit(sessions, c, _get_db_for_query(""))
  /\ fetched' = [fetched EXCEPT ![c] =
                   IF ~RecordTruthy(fetched[c]) THEN <<>> ELSE <<get_instance(fetched[c][1])>>]
  /\ pc' = [pc EXCEPT ![c] = "selected"]
  /\ UNCHANGED <<used_db, tables, last, inserted, deleted, target, overlap>>

\* update(instance) of the entity read, with a new payload, up to the statement
UpdateEnter(c) ==
  \E v \in Vals :
    /\ pc[c] = "selected"
    /\ fetched[c] # <<>>
    /\ LET db == _get_db_for_query("")
           d == instance_to_dict([fetched[c][1] EXCEPT !.payload = v])[1]
           params == IF "id" \in DOMAIN d THEN d @@ ("instance_id" :> d.id) ELSE d
           r == SessionExecute(tables[db], update_query, params)
       IN /\ r.ok
          /\ ~Blocked(sessions, c, r.locks)
          /\ sessions' = WithLocks(WithEnter(sessions, c, db), c, db, r.locks)
          /\ tables' = [tables EXCEPT ![db] = r.tbl]
          /\ overlap' = Seen(c, target[c], "update")
          /\ pc' = [pc EXCEPT ![c] = "in_update"]
          /\ UNCHANGED <<used_db, last, inserted, deleted, target, fetched>>

\* the with block of _execute left, and update returning
UpdateExit(c) ==
  /\ pc[c] = "in_update"
  /\ sessions' = WithExit(sessions, c, _get_db_for_query(""))
  /\ pc' = [pc EXCEPT ![c] = "done"]
  /\ UNCHANGED <<used_db, tables, last, inserted, deleted, target, fetched, overlap>>

\* the caller starts over: after its update, or after a lookup that found no row
Again(c) ==
  /\ pc[c] = "done" \/ (pc[c] = "selected" /\ fetched[c] = <<>>)
  /\ pc' = [pc EXCEPT ![c] = "idle"]
  /\ fetched' = [fetched EXCEPT ![c] = <<>>]
  /\ overlap' = [overlap EXCEPT ![c] = {}]
  /\ UNCHANGED <<used_db, tables, sessions, last, inserted, deleted, target>>

(* --------------------------- specifications ---------------------------- *)
Idle ==
  /\ sessions = {}
  /\ last = NoCall(tables)
  /\ inserted = [i \in Ids |-> <<>>]
  /\ deleted = {}
  /\ pc = [c \in Callers |-> "idle"]
  /\ target = [c \in Callers |-> 1]
  /\ fetched = [c \in Callers |-> <<>>]
  /\ overlap = [c \in Callers |-> {}]

Init ==
  /\ used_db = "main"
  /\ tables = [d \in DbRegistry |-> {}]
  /\ Idle

Keep == UNCHANGED <<inserted, deleted>>

\* every public method, called in any order
Next ==
  \/ GetById /\ Keep
  \/ GetOrRaiseById /\ Keep
  \/ Insert /\ Keep
  \/ Update /\ Keep
  \/ DeleteById /\ Keep
  \/ Delete /\ Keep
  \/ DeleteAll /\ Keep
  \/ GetAll /\ Keep
  \/ InsertMany /\ Keep

Spec == Init /\ [][Next]_vars

Track == inserted' = InsertedAfter /\ deleted' = DeletedAfter

\* the single-row methods, with the history of each row
NextCrud ==
  \/ GetById /\ Track
  \/ GetOrRaiseById /\ Track
  \/ Insert /\ Track
  \/ Update /\ Track
  \/ DeleteById /\ Track
  \/ Delete /\ Track
  \/ DeleteAll /\ Track

SpecCrud == Init /\ [][NextCrud]_vars

\* the protected helpers, called with a database name, over any repository default
InitDb ==
  /\ used_db \in DbRegistry
  /\ tables = [d \in DbRegistry |-> {}]
  /\ Idle

NextDb ==
  \/ Insert /\ Keep
  \/ Fetchall /\ Keep
  \/ Fetchone /\ Keep
  \/ Execute /\ Keep

SpecDb == InitDb /\ [][NextDb]_vars

\* two callers over a table of any content
InitConc ==
  /\ used_db = "main"
  /\ \E t \in SUBSET Rows :
       /\ KeyOk(t)
       /\ tables = [d \in DbRegistry |-> IF d = used_db THEN t ELSE {}]
  /\ Idle

NextConc ==
  \E c \in Callers :
    \/ SelectEnter(c)
    \/ SelectExit(c)
    \/ UpdateEnter(c)
    \/ UpdateExit(c)
    \/ Again(c)

SpecConc == InitConc /\ [][NextConc]_vars

TypeOK ==
  /\ used_db \in DbRegistry
  /\ \A d \in DbRegistry : tables[d] \subseteq Rows /\ KeyOk(tables[d])
  /\ last.outcome \in {"return", "raise"}

(* ------------------------------ properties ----------------------------- *)
Count(trace, ev) == Cardinality({k \in DOMAIN trace : trace[k].ev = ev})

PublicOps ==
  {"get_by_id", "get_or_raise_by_id", "insert", "update", "delete", "delete_by_id",
   "delete_all", "get_all", "insert_many"}

\* the rows that differ between two states of the tables, over every database
Changed(before, after) ==
  UNION {(before[d] \ after[d]) \cup (after[d] \ before[d]) : d \in DbRegistry}

EntityFields(instance) == [id |-> instance.ident, val |-> instance.payload]

\* C1: get_or_raise_by_id raises the not-found exception exactly when
\* get_by_id, on the same table state and with the same arguments, returns
\* none; otherwise it raises nothing and returns the instance get_by_id
\* returns, also when that instance evaluates as false.
C1_RaisesIffGetByIdNone ==
  last.op = "get_or_raise_by_id" =>
    LET g == get_by_id(last.before, last.id, last.for_update) IN
    /\ (last.outcome = "raise" /\ last.exc = "NotFoundInRepository")
         <=> (g.outcome = "return" /\ g.value = <<>>)
    /\ (g.outcome = "return" /\ g.value # <<>>)
         => (last.outcome = "return" /\ last.value = g.value)

\* C2: get_by_id returns none when the table holds no row of the given id,
\* and the entity get_instance makes of that row when it holds one, with or
\* without for_update, after any sequence of inserts, updates and deletes.
C2_GetByIdNoneOrMapped ==
  last.op = "get_by_id" =>
    LET rows == RowAt(last.before[used_db], last.id) IN
    /\ last.outcome = "return"
    /\ rows = {} => last.value = <<>>
    /\ \A r \in rows : last.value = <<get_instance(r)>>

C2_Witness ==
  /\ last.op = "get_by_id"
  /\ last.for_update
  /\ last.value # <<>>
  /\ Cardinality(last.before[used_db]) = MaxId

\* C3: get_by_id of an id whose row was written by an insert(e) that returned,
\* and has not changed since, returns an entity whose fields equal the column
\* map e's to_dict produced.
C3_InsertThenGetRoundTrips ==
  (last.op = "get_by_id" /\ inserted[last.id] # <<>>) =>
    /\ last.outcome = "return"
    /\ last.value # <<>>
    /\ EntityFields(last.value[1]) = inserted[last.id][1]

C3_Witness ==
  /\ last.op = "get_by_id"
  /\ inserted[last.id] # <<>>
  /\ last.value # <<>>
  /\ Cardinality(tables[used_db]) = MaxId

\* C4: get_by_id(i) returns none once a delete_by_id(i), or a delete of an
\* instance of id i, has returned and no row of id i has been inserted since,
\* whatever calls came before the delete.
C4_DeleteThenGetNone ==
  (last.op = "get_by_id" /\ last.id \in deleted) =>
    (last.outcome = "return" /\ last.value = <<>>)

C4_Witness ==
  /\ last.op = "get_by_id"
  /\ last.id \in deleted
  /\ last.value = <<>>
  /\ tables[used_db] # {}

\* C5: insert_many of an empty list opens no session, executes no statement,
\* changes no row and returns; a session is opened and one batched insert is
\* executed only for a non-empty list.
C5_InsertManyEmptyIsNoOp ==
  last.op = "insert_many" =>
    /\ last.n = 0 =>
         /\ last.trace = <<>>
         /\ last.outcome = "return"
         /\ tables = last.before
         /\ sessions = {}
    /\ (Count(last.trace, "open") > 0 \/ Count(last.trace, "execute") > 0) =>
         /\ last.n > 0
         /\ Count(last.trace, "open") = 1
         /\ Count(last.trace, "execute") = 1
         /\ \A k \in DOMAIN last.trace :
              last.trace[k].ev = "execute" => last.trace[k].stmt = "insert"

C5_Witness ==
  /\ last.op = "insert_many"
  /\ last.n = 0
  /\ last.trace = <<>>
  /\ tables[used_db] # {}

\* C6: update changes a row only when the serialized map has the key 'id',
\* and then only rows of that id; with a serialized map without 'id' the
\* update raises and every row is left as it was.
C6_UpdateOnlyById ==
  last.op = "update" =>
    LET d == instance_to_dict(last.args[1])
        changed == Changed(last.before, tables)
    IN /\ changed # {} =>
            /\ d # <<>>
            /\ "id" \in DOMAIN d[1]
            /\ \A r \in changed : r.id = d[1].id
       /\ (d # <<>> /\ "id" \notin DOMAIN d[1]) =>
            (last.outcome = "raise" /\ tables = last.before)

C6_Witness ==
  /\ last.op = "update"
  /\ last.args[1].ser = "noid"
  /\ last.outcome = "raise"
  /\ Cardinality(tables[used_db]) = MaxId

\* C7: every statement runs on the session of the database the call names
\* (use_db); the repository's default (used_db) is used only when the call
\* names none.
C7_CallNamedDatabaseWins ==
  \A k \in DOMAIN last.trace :
    last.trace[k].ev = "open" =>
      last.trace[k].db = (IF last.use_db # "" THEN last.use_db ELSE used_db)

\* the shape of a call that reaches the database: one session, one statement
\* on it, the session released after the statement and before the call ends
OneSessionOneStatement(trace) ==
  /\ Count(trace, "open") = 1
  /\ Count(trace, "execute") = 1
  /\ Count(trace, "close") = 1
  /\ trace[1].ev = "open"
  /\ trace[2].ev = "execute"
  /\ \E k \in DOMAIN trace : k > 2 /\ trace[k].ev = "close"

\* C8, as stated: every public call but insert_many of an empty list opens
\* exactly one session, executes exactly one statement on it and releases it
\* before it returns or raises; no session stays open after a call.
C8_ExactlyOneSessionPerCall ==
  /\ sessions = {}
  /\ (last.op \in PublicOps /\ ~(last.op = "insert_many" /\ last.n = 0)) =>
       OneSessionOneStatement(last.trace)

\* C8, amended: a public call whose instance cannot be serialized raises
\* NotImplementedError before any session is opened, and insert_many of an
\* empty list opens none; every other public call opens exactly one session,
\* executes exactly one statement on it and releases it before it returns or
\* raises, whether the statement succeeds or fails; no session stays open
\* after a call.
C8_OneSessionUnlessNotSerializable ==
  /\ sessions = {}
  /\ last.op \in PublicOps =>
       IF \/ last.op = "insert_many" /\ last.n = 0
          \/ last.outcome = "raise" /\ last.exc = "NotImplementedError"
       THEN last.trace = <<>>
       ELSE OneSessionOneStatement(last.trace)

C8_Witness ==
  /\ last.op \in PublicOps
  /\ last.outcome = "raise"
  /\ last.exc = "IntegrityError"
  /\ OneSessionOneStatement(last.trace)
  /\ sessions = {}

\* C9: no session, and so no row lock, is held by a caller that is not
\* inside a call: the lock of get_by_id(i, for_update=True) is gone once the
\* call has returned, before the caller's update starts.
C9_NoLockBetweenCalls ==
  \A s \in sessions : pc[s.owner] \in {"in_select", "in_update"}

\* the other caller's locked select and its update of the same row both ran
\* between a caller's select and its own update, and the entity the caller
\* read is no longer the row
C9_Witness ==
  \E c \in Callers :
    /\ pc[c] = "selected"
    /\ fetched[c] # <<>>
    /\ overlap[c] = {"select", "update"}
    /\ \A r \in tables[used_db] : get_instance(r) # fetched[c][1]

\* C10: no method reads the rows or the row count of a result after the
\* session that executed the statement has been released.
C10_NoReadAfterRelease ==
  \A j, k \in DOMAIN last.trace :
    (j < k /\ last.trace[j].ev = "close") => last.trace[k].ev # "read"

====
